---------------------------- MODULE Spec2Model ----------------------------
(***************************************************************************)
(* Model of nfl_combine_statistics_web_scraping.py: the table-extraction   *)
(* pipeline get_pfr_table_data -> get_pfr_combine_stats ->                  *)
(* get_pfr_combines_stats and get_pfr_table_data -> get_pfr_player_stats -> *)
(* get_pfr_players_stats.                                                   *)
(*                                                                         *)
(* Encodings.                                                              *)
(*  - A text (str) is a sequence of one-character strings.                 *)
(*  - A cell (th/td tag) is [stat, text, a, href]: its data-stat           *)
(*    attribute, its display text, whether it holds an <a> tag, and that   *)
(*    tag's href.                                                          *)
(*  - A row (tr tag) is [class, cells]; class is the list of class tokens. *)
(*  - A dict is a sequence of [k, v] pairs with distinct keys, in          *)
(*    insertion order.                                                     *)
(*  - A DataFrame is [columns, data]: the column labels in order and the   *)
(*    rows, each a sequence of values, one per column.  A value is NaN,    *)
(*    Str(text) or Num(n).                                                 *)
(***************************************************************************)
EXTENDS Integers, Sequences, FiniteSets, TLC

VARIABLES pc, fn, ids, soups, rows, fname, data, row_data, df

vars == <<pc, fn, ids, soups, rows, fname, data, row_data, df>>

-----------------------------------------------------------------------------
(* Bounds of the model *)

MaxSoups == 2

MaxRows == 2

-----------------------------------------------------------------------------
(* Sequences *)

SeqsUpTo(S, n) == UNION {[1..k -> S] : k \in 0..n}

Range(s) == {s[i] : i \in DOMAIN s}

Min(a, b) == IF a < b THEN a ELSE b

Max(a, b) == IF a > b THEN a ELSE b

RECURSIVE Flatten(_)
Flatten(ss) == IF ss = <<>> THEN <<>> ELSE Head(ss) \o Flatten(Tail(ss))

(* the labels of s without repetition, in order of first appearance *)
RECURSIVE Unique(_)
Unique(s) ==
    IF s = <<>> THEN <<>>
    ELSE LET front == Unique(SubSeq(s, 1, Len(s) - 1))
             last == s[Len(s)]
         IN IF last \in Range(front) THEN front ELSE Append(front, last)

(* the first position of x in s *)
IndexOf(s, x) == CHOOSE i \in DOMAIN s : s[i] = x /\ \A j \in 1..(i - 1) : s[j] # x

-----------------------------------------------------------------------------
(* Texts: str.strip() and the numeric parse of pd.to_numeric *)

IsSpace(c) == c = " "

IsDigit(c) == c \in {"0", "7"}

DigitVal(c) == IF c = "7" THEN 7 ELSE 0

RECURSIVE LStrip(_)
LStrip(s) == IF s # <<>> /\ IsSpace(Head(s)) THEN LStrip(Tail(s)) ELSE s

RECURSIVE RStrip(_)
RStrip(s) ==
    IF s # <<>> /\ IsSpace(s[Len(s)]) THEN RStrip(SubSeq(s, 1, Len(s) - 1)) ELSE s

strip(s) == RStrip(LStrip(s))

(* pd.to_numeric accepts a string when, blanks around it skipped, it is a  *)
(* numeral; over the alphabet of the model a numeral is a digit string.    *)
Parseable(s) ==
    LET t == strip(s) IN t # <<>> /\ \A i \in DOMAIN t : IsDigit(t[i])

RECURSIVE DigitsVal(_)
DigitsVal(t) ==
    IF t = <<>> THEN 0
    ELSE 10 * DigitsVal(SubSeq(t, 1, Len(t) - 1)) + DigitVal(t[Len(t)])

NumVal(s) == DigitsVal(strip(s))

-----------------------------------------------------------------------------
(* Values of a DataFrame cell *)

NaN == [t |-> "nan", s |-> <<>>, n |-> 0]

Str(s) == [t |-> "str", s |-> s, n |-> 0]

Num(n) == [t |-> "num", s |-> <<>>, n |-> n]

EmptyFrame == [columns |-> <<>>, data |-> <<>>]

-----------------------------------------------------------------------------
(* get_pfr_table_data *)

DictKeys(d) == [i \in DOMAIN d |-> d[i].k]

DictHas(d, k) == \E i \in DOMAIN d : d[i].k = k

DictGet(d, k) == d[CHOOSE i \in DOMAIN d : d[i].k = k].v

(* d[k] = v: an existing key keeps its place *)
DictSet(d, k, v) ==
    IF DictHas(d, k)
    THEN [i \in DOMAIN d |-> IF d[i].k = k THEN [k |-> k, v |-> v] ELSE d[i]]
    ELSE Append(d, [k |-> k, v |-> v])

(* the text with the blanks around it removed *)
EntryTextStripped(entry) == strip(entry.text)

(* lambda x: x.text *)
entry_text(entry) == entry.text

(* the cell's text where the college cell has no link *)
CombineStatTextFallback(entry) ==
    IF entry.stat # "college" THEN strip(entry.text)
    ELSE IF entry.a THEN entry.href
    ELSE strip(entry.text)

get_pfr_combine_stat(entry) ==
    IF entry.stat # "college" THEN strip(entry.text)
    ELSE IF entry.a THEN entry.href
    ELSE <<>>

Extract(f, entry) ==
    IF f = "get_pfr_combine_stat" THEN get_pfr_combine_stat(entry)
    ELSE entry_text(entry)

RECURSIVE RowDict(_, _)
RowDict(cells, f) ==
    IF cells = <<>> THEN <<>>
    ELSE LET entry == cells[Len(cells)]
         IN DictSet(RowDict(SubSeq(cells, 1, Len(cells) - 1), f),
                    entry.stat, Extract(f, entry))

TableDataSkipEmpty(rs, f) ==
    LET kept == SelectSeq(rs, LAMBDA r : r.cells # <<>>)
    IN [i \in DOMAIN kept |-> RowDict(kept[i].cells, f)]

get_pfr_table_data(rs, f) == [i \in DOMAIN rs |-> RowDict(rs[i].cells, f)]

-----------------------------------------------------------------------------
(* pandas: DataFrame(list of dicts), mask, to_numeric, apply *)

NRows(frame) == Len(frame.data)

HasColumn(frame, c) == c \in Range(frame.columns)

Column(frame, c) == [r \in DOMAIN frame.data |-> frame.data[r][c]]

(* pd.DataFrame(row_data): one row per dict, the columns are the keys in   *)
(* order of first appearance, a key a dict lacks is NaN in its row.        *)
DataFrame(recs) ==
    LET columns == Unique(Flatten([i \in DOMAIN recs |-> DictKeys(recs[i])]))
    IN [columns |-> columns,
        data |-> [i \in DOMAIN recs |->
                    [c \in DOMAIN columns |->
                        IF DictHas(recs[i], columns[c])
                        THEN Str(DictGet(recs[i], columns[c]))
                        ELSE NaN]]]

(* .mask(lambda x: x == "") *)
mask_empty(frame) ==
    [columns |-> frame.columns,
     data |-> [r \in DOMAIN frame.data |->
                 [c \in DOMAIN frame.columns |->
                     IF frame.data[r][c] = Str(<<>>) THEN NaN ELSE frame.data[r][c]]]]

(* each string that parses becomes a number, the others are lost *)
ToNumericCoerce(col) ==
    [r \in DOMAIN col |->
        IF col[r].t = "str"
        THEN IF Parseable(col[r].s) THEN Num(NumVal(col[r].s)) ELSE NaN
        ELSE col[r]]

(* pd.to_numeric(x, errors="ignore") on one column: every string parses    *)
(* and the column becomes numeric, or the column is returned as it was.    *)
to_numeric_ignore(col) ==
    IF \A r \in DOMAIN col : col[r].t = "str" => Parseable(col[r].s)
    THEN [r \in DOMAIN col |->
            IF col[r].t = "str" THEN Num(NumVal(col[r].s)) ELSE col[r]]
    ELSE col

(* .apply(lambda x: pd.to_numeric(x, errors="ignore")) *)
apply_to_numeric(frame) ==
    [columns |-> frame.columns,
     data |-> [r \in DOMAIN frame.data |->
                 [c \in DOMAIN frame.columns |->
                     to_numeric_ignore(Column(frame, c))[r]]]]

-----------------------------------------------------------------------------
(* get_pfr_combine_stats *)

HasTable(soup, id) == \E t \in DOMAIN soup : soup[t].id = id

(* soup.find("table", id=...): the first such table *)
FindTable(soup, id) ==
    soup[CHOOSE t \in DOMAIN soup :
            soup[t].id = id /\ \A u \in 1..(t - 1) : soup[u].id # id]

(* class_=lambda c: c != "thead": BeautifulSoup tries the function on None *)
(* for a tag without class, else on each class token and on the whole      *)
(* attribute.                                                              *)
NotThead(class) == class # <<"thead">>

CombineRows(soup) ==
    SelectSeq(FindTable(soup, "combine").rows, LAMBDA r : NotThead(r.class))

CombineRecords(soup) == get_pfr_table_data(CombineRows(soup), "get_pfr_combine_stat")

get_pfr_combine_stats(soup) ==
    apply_to_numeric(mask_empty(DataFrame(CombineRecords(soup))))

-----------------------------------------------------------------------------
(* pandas: concat, reset_index, assign, set_index.  A frame with an index  *)
(* is [ok, err, columns, data, index]; index holds one tuple of level      *)
(* values per row; a raised exception is a frame with ok = FALSE.          *)

Raise(e) == [ok |-> FALSE, err |-> e, columns |-> <<>>, data |-> <<>>, index |-> <<>>]

NoResult == [ok |-> FALSE, err |-> "", columns |-> <<>>, data |-> <<>>, index |-> <<>>]

(* the rows of frame under the column labels columns *)
Reindex(frame, columns) ==
    [r \in DOMAIN frame.data |->
        [c \in DOMAIN columns |->
            IF HasColumn(frame, columns[c])
            THEN frame.data[r][IndexOf(frame.columns, columns[c])]
            ELSE NaN]]

(* pd.concat(objs, keys=keys, names=[...]) along axis 0: keys and objs are *)
(* zipped (the longer one is cut), the columns are the union in order of   *)
(* first appearance, the index is (key, row number within its frame).      *)
concat(objs, keys) ==
    LET n == Min(Len(keys), Len(objs))
        used == SubSeq(objs, 1, n)
        columns == Unique(Flatten([i \in 1..n |-> used[i].columns]))
    IN IF objs = <<>> THEN Raise("ValueError: No objects to concatenate")
       ELSE IF n = 0 THEN Raise("ValueError: All objects passed were None")
       ELSE [ok |-> TRUE, err |-> "",
             columns |-> columns,
             data |-> Flatten([i \in 1..n |-> Reindex(used[i], columns)]),
             index |-> Flatten([i \in 1..n |->
                          [r \in 1..NRows(used[i]) |-> <<Num(keys[i]), Num(r - 1)>>]])]

(* .reset_index(level=1, drop=True) *)
reset_index_level1(frame) ==
    [frame EXCEPT !.index = [r \in DOMAIN frame.index |-> <<frame.index[r][1]>>]]

(* np.arange(len(x)) *)
arange(n) == [r \in 1..n |-> Num(r - 1)]

(* .assign(name=values): a new last column, or the column of that name     *)
(* replaced                                                                *)
assign(frame, name, values) ==
    IF HasColumn(frame, name)
    THEN [frame EXCEPT !.data =
            [r \in DOMAIN frame.data |->
                [frame.data[r] EXCEPT ![IndexOf(frame.columns, name)] = values[r]]]]
    ELSE [frame EXCEPT !.columns = Append(frame.columns, name),
                       !.data = [r \in DOMAIN frame.data |->
                                    Append(frame.data[r], values[r])]]

DropAt(s, c) == SubSeq(s, 1, c - 1) \o SubSeq(s, c + 1, Len(s))

(* .set_index(name, append=True): the column becomes the last index level  *)
set_index_append(frame, name) ==
    IF ~HasColumn(frame, name) THEN Raise("KeyError")
    ELSE LET c == IndexOf(frame.columns, name)
         IN [ok |-> TRUE, err |-> "",
             columns |-> DropAt(frame.columns, c),
             data |-> [r \in DOMAIN frame.data |-> DropAt(frame.data[r], c)],
             index |-> [r \in DOMAIN frame.index |->
                          Append(frame.index[r], frame.data[r][c])]]

-----------------------------------------------------------------------------
(* get_pfr_combines_stats, after its loop: combine_data is complete *)

(* the inner index pd.concat made: the row number within each year's frame *)
PlayerIdPerFrame(frame) == [r \in DOMAIN frame.index |-> frame.index[r][2]]

PlayerId(frame) == arange(NRows(frame))

CombinesFrame(year_ids, combine_data) ==
    LET c == concat(combine_data, year_ids)
    IN IF ~c.ok THEN c
       ELSE set_index_append(
                assign(reset_index_level1(c), "player_id", PlayerId(c)),
                "player_id")

-----------------------------------------------------------------------------
(* get_pfr_player_stats *)

PLAYER_STAT_TABLES == {"passing", "rushing", "receiving", "defense"}

PlayerTables(soup) == SelectSeq(soup, LAMBDA t : t.id \in PLAYER_STAT_TABLES)

NaNRow(n) == [c \in 1..n |-> NaN]

RECURSIVE MaxRowsOf(_)
MaxRowsOf(frames) ==
    IF frames = <<>> THEN 0 ELSE Max(NRows(Head(frames)), MaxRowsOf(Tail(frames)))

(* pd.concat(table_data, axis=1): the frames side by side, aligned on the  *)
(* row number, a frame with fewer rows padded with NaN                     *)
concat_axis1(frames) ==
    [columns |-> Flatten([i \in DOMAIN frames |-> frames[i].columns]),
     data |-> [r \in 1..MaxRowsOf(frames) |->
                 Flatten([i \in DOMAIN frames |->
                     IF r <= NRows(frames[i]) THEN frames[i].data[r]
                     ELSE NaNRow(Len(frames[i].columns))])]]

SelectColumns(frame, keep) ==
    [columns |-> [i \in DOMAIN keep |-> frame.columns[keep[i]]],
     data |-> [r \in DOMAIN frame.data |->
                 [i \in DOMAIN keep |-> frame.data[r][keep[i]]]]]

(* the positions of the TRUE flags, ascending *)
RECURSIVE Where(_)
Where(flags) ==
    IF flags = <<>> THEN <<>>
    ELSE LET front == Where(SubSeq(flags, 1, Len(flags) - 1))
         IN IF flags[Len(flags)] THEN Append(front, Len(flags)) ELSE front

(* flags every column of a label but the last *)
DuplicatedKeepLast(columns) ==
    [c \in DOMAIN columns |-> \E j \in (c + 1)..Len(columns) : columns[j] = columns[c]]

(* x.columns.duplicated(): flags every column of a label but the first *)
duplicated(columns) ==
    [c \in DOMAIN columns |-> \E j \in 1..(c - 1) : columns[j] = columns[c]]

(* .loc[:, lambda x: ~x.columns.duplicated()] *)
loc_not_duplicated(frame) ==
    SelectColumns(frame,
        Where([c \in DOMAIN frame.columns |-> ~duplicated(frame.columns)[c]]))

TableFrames(soup) ==
    LET tables == PlayerTables(soup)
    IN [t \in DOMAIN tables |-> DataFrame(get_pfr_table_data(tables[t].rows, "text"))]

ConcatTables(soup) == concat_axis1(<<EmptyFrame>> \o TableFrames(soup))

get_pfr_player_stats(soup) ==
    IF Len(PlayerTables(soup)) = 0 THEN EmptyFrame
    ELSE apply_to_numeric(mask_empty(loc_not_duplicated(ConcatTables(soup))))

-----------------------------------------------------------------------------
(* get_pfr_players_stats, after its loop: player_data is complete *)

(* the second index level is the row number within the player's frame *)
PlayersFrameCounter(player_ids, player_data) ==
    LET c == concat(player_data, player_ids)
    IN IF ~c.ok THEN c
       ELSE set_index_append(
                assign(reset_index_level1(c), "year_id", PlayerIdPerFrame(c)),
                "year_id")

PlayersFrame(player_ids, player_data) ==
    LET c == concat(player_data, player_ids)
    IN IF ~c.ok THEN c
       ELSE set_index_append(reset_index_level1(c), "year_id")

-----------------------------------------------------------------------------
(* Inputs: documents over a small alphabet of texts *)

Cell(stat, text) == [stat |-> stat, text |-> text, a |-> FALSE, href |-> <<>>]

Link(stat, text, href) == [stat |-> stat, text |-> text, a |-> TRUE, href |-> href]

Row(cells) == [class |-> <<>>, cells |-> cells]

HeaderRow(class, cells) == [class |-> class, cells |-> cells]

Table(id, rs) == [id |-> id, rows |-> rs]

(* rows of a combine results table: a linked college, a college in plain   *)
(* text, no college cell, blank and padded texts, a numeral with a leading *)
(* zero, a repeated header row, a row without cells, a repeated data-stat  *)
CombineRowPool ==
    { Row(<<Link("college", <<"a">>, <<"/", "a">>), Cell("forty", <<" ", "7", " ">>)>>),
      Row(<<Cell("college", <<"a">>), Cell("forty", <<"0", "7">>)>>),
      Row(<<Link("player", <<"a", " ">>, <<"/", "a">>), Cell("forty", <<"a">>)>>),
      Row(<<Cell("forty", <<" ">>)>>),
      Row(<<Link("college", <<>>, <<"7">>)>>),
      HeaderRow(<<"thead">>, <<Cell("forty", <<"a">>)>>),
      HeaderRow(<<"thead", "a">>, <<Cell("college", <<"a">>)>>),
      Row(<<>>),
      Row(<<Cell("forty", <<"7">>), Cell("forty", <<"a">>)>>) }

(* rows of a player's category table *)
PlayerRowPool ==
    { Row(<<Cell("year_id", <<"7">>), Cell("g", <<" ", "7">>)>>),
      Row(<<Cell("year_id", <<"7", "7">>), Cell("g", <<"0", "7">>)>>),
      Row(<<Cell("year_id", <<"a">>), Cell("g", <<>>)>>),
      Row(<<Cell("g", <<" ">>)>>),
      Row(<<Cell("year_id", <<>>), Cell("g", <<"7">>)>>) }

OtherTable == Table("other", <<Row(<<Cell("year_id", <<"7">>)>>)>>)

(* one document, any rows *)
CombineSoups ==
    {<<Table("combine", rs)>> : rs \in SeqsUpTo(CombineRowPool, MaxRows)}

(* documents of a call over several years: no combine table, no rows, one *)
(* and two data rows, header rows before and between the data rows, and a  *)
(* table whose college cells are a link, plain text and absent             *)
CombineSoupsSmall ==
    LET d1 == Row(<<Link("college", <<"a">>, <<"/", "a">>), Cell("forty", <<"7">>)>>)
        d2 == Row(<<Cell("forty", <<"a">>)>>)
        dp == Row(<<Cell("college", <<"a">>), Cell("forty", <<"7">>)>>)
        th == HeaderRow(<<"thead">>, <<Cell("forty", <<"a">>)>>)
    IN { <<OtherTable>>,
         <<Table("combine", <<>>)>>,
         <<Table("combine", <<d1>>)>>,
         <<Table("combine", <<d2, d1>>)>>,
         <<Table("combine", <<th, d1>>)>>,
         <<Table("combine", <<d1, th, d2>>)>>,
         <<Table("combine", <<d1, dp, d2>>)>> }

PlayerSoups ==
    {<<>>, <<OtherTable>>}
        \cup {<<Table("defense", rs)>> : rs \in SeqsUpTo(PlayerRowPool, MaxRows)}
        \cup {<<OtherTable, Table("receiving", rs)>> :
                  rs \in SeqsUpTo(PlayerRowPool, MaxRows)}
        \cup {<<Table("passing", rs[1]), Table("rushing", rs[2])>> :
                  rs \in SeqsUpTo(PlayerRowPool, MaxRows)
                             \X SeqsUpTo(PlayerRowPool, MaxRows)}

(* documents of a call over several players: no category table, a table  *)
(* without rows, tables with and without the year_id statistic             *)
PlayerSoupsSmall ==
    LET y1 == Row(<<Cell("year_id", <<"7">>), Cell("g", <<"a">>)>>)
        y2 == Row(<<Cell("year_id", <<"7", "7">>)>>)
        ny == Row(<<Cell("g", <<"7">>)>>)
    IN { <<>>,
         <<Table("defense", <<>>)>>,
         <<Table("defense", <<y1>>)>>,
         <<Table("defense", <<y2, y1>>)>>,
         <<Table("defense", <<ny>>)>>,
         <<Table("passing", <<ny, y1>>)>> }

(* year_ids / player_ids: distinct numbers, ascending or descending *)
IdSeqs ==
    UNION {{[i \in 1..k |-> 2018 + i], [i \in 1..k |-> 2019 + k - i]} : k \in 0..MaxSoups}

Calls(Rich, Small) ==
    {[ids |-> <<2020>>, soups |-> <<s>>] : s \in Rich}
        \cup {[ids |-> y, soups |-> ss] : y \in IdSeqs, ss \in SeqsUpTo(Small, MaxSoups)}

-----------------------------------------------------------------------------
(* The program: one call of one of its three entry points *)

Init ==
    /\ pc = "idle"
    /\ fn = ""
    /\ ids = <<>>
    /\ soups = <<>>
    /\ rows = <<>>
    /\ fname = ""
    /\ data = <<>>
    /\ row_data = <<>>
    /\ df = NoResult

CallTableData ==
    /\ pc = "idle"
    /\ \E rs \in SeqsUpTo(CombineRowPool \cup PlayerRowPool, MaxRows),
          f \in {"text", "get_pfr_combine_stat"} :
            /\ rows' = rs
            /\ fname' = f
    /\ fn' = "get_pfr_table_data"
    /\ pc' = "call"
    /\ UNCHANGED <<ids, soups, data, row_data, df>>

TableData ==
    /\ pc = "call"
    /\ fn = "get_pfr_table_data"
    /\ row_data' = get_pfr_table_data(rows, fname)
    /\ pc' = "done"
    /\ UNCHANGED <<fn, ids, soups, rows, fname, data, df>>

CallCombines ==
    /\ pc = "idle"
    /\ \E call \in Calls(CombineSoups, CombineSoupsSmall) :
            /\ ids' = call.ids
            /\ soups' = call.soups
    /\ fn' = "get_pfr_combines_stats"
    /\ pc' = "loop"
    /\ UNCHANGED <<rows, fname, data, row_data, df>>

(* one iteration of "for soup in soups"; a document without the table      *)
(* raises (None has no tbody)                                              *)
CombinesLoop ==
    /\ pc = "loop"
    /\ fn = "get_pfr_combines_stats"
    /\ Len(data) < Len(soups)
    /\ LET soup == soups[Len(data) + 1]
       IN IF HasTable(soup, "combine")
          THEN /\ data' = Append(data, get_pfr_combine_stats(soup))
               /\ UNCHANGED <<pc, df>>
          ELSE /\ df' = Raise("AttributeError")
               /\ pc' = "done"
               /\ UNCHANGED data
    /\ UNCHANGED <<fn, ids, soups, rows, fname, row_data>>

CombinesReturn ==
    /\ pc = "loop"
    /\ fn = "get_pfr_combines_stats"
    /\ Len(data) = Len(soups)
    /\ df' = CombinesFrame(ids, data)
    /\ pc' = "done"
    /\ UNCHANGED <<fn, ids, soups, rows, fname, data, row_data>>

CallPlayers ==
    /\ pc = "idle"
    /\ \E call \in Calls(PlayerSoups, PlayerSoupsSmall) :
            /\ ids' = call.ids
            /\ soups' = call.soups
    /\ fn' = "get_pfr_players_stats"
    /\ pc' = "loop"
    /\ UNCHANGED <<rows, fname, data, row_data, df>>

PlayersLoop ==
    /\ pc = "loop"
    /\ fn = "get_pfr_players_stats"
    /\ Len(data) < Len(soups)
    /\ data' = Append(data, get_pfr_player_stats(soups[Len(data) + 1]))
    /\ UNCHANGED <<pc, fn, ids, soups, rows, fname, row_data, df>>

PlayersReturn ==
    /\ pc = "loop"
    /\ fn = "get_pfr_players_stats"
    /\ Len(data) = Len(soups)
    /\ df' = PlayersFrame(ids, data)
    /\ pc' = "done"
    /\ UNCHANGED <<fn, ids, soups, rows, fname, data, row_data>>

Next ==
    \/ CallTableData
    \/ TableData
    \/ CallCombines
    \/ CombinesLoop
    \/ CombinesReturn
    \/ CallPlayers
    \/ PlayersLoop
    \/ PlayersReturn

Spec == Init /\ [][Next]_vars

-----------------------------------------------------------------------------
(* What the claims speak of: the cells of the source documents *)

Called(f) == fn = f

Returned(f) == fn = f /\ pc = "done"

CellsOf(row, k) == {j \in DOMAIN row.cells : row.cells[j].stat = k}

HasCell(row, k) == CellsOf(row, k) # {}

StatKeys(row) == {row.cells[j].stat : j \in DOMAIN row.cells}

(* the cell a key of the row's record is valued from *)
LastCell(row, k) ==
    row.cells[CHOOSE j \in CellsOf(row, k) : \A m \in CellsOf(row, k) : m <= j]

(* v is the text t, as text or as the number it parses to *)
Denotes(v, t) == v = Str(t) \/ (Parseable(t) /\ v = Num(NumVal(t)))

(* v is the text t, the empty text being the missing marker *)
Holds(v, t) == IF t = <<>> THEN v = NaN ELSE Denotes(v, t)

(* the text the combine extractor is to take from a cell *)
CombineText(entry) ==
    IF entry.stat = "college" THEN (IF entry.a THEN entry.href ELSE <<>>)
    ELSE strip(entry.text)

(* the category tables of a player document that hold the key, in order *)
TablesWith(soup, k) ==
    SelectSeq(PlayerTables(soup), LAMBDA t : \E r \in DOMAIN t.rows : HasCell(t.rows[r], k))

PlayerKeys(soup) ==
    UNION {UNION {StatKeys(t.rows[r]) : r \in DOMAIN t.rows} :
              t \in Range(PlayerTables(soup))}

(* the first table with key k has a cell for it in row r *)
PlayerHas(soup, k, r) ==
    LET t == TablesWith(soup, k)[1]
    IN r <= Len(t.rows) /\ HasCell(t.rows[r], k)

PlayerText(soup, k, r) == LastCell(TablesWith(soup, k)[1].rows[r], k).text

-----------------------------------------------------------------------------
(* C9: get_pfr_table_data returns one record per row, in the order of the  *)
(* rows, and the keys of the i-th record are exactly the data-stat names   *)
(* of the cells of the i-th row, each once (no cells: an empty record),    *)
(* each valued by the extraction function from a cell of that row          *)
C9_RecordPerRow ==
    Returned("get_pfr_table_data") =>
        /\ Len(row_data) = Len(rows)
        /\ \A i \in DOMAIN row_data :
            /\ Range(DictKeys(row_data[i])) = StatKeys(rows[i])
            /\ Len(row_data[i]) = Cardinality(StatKeys(rows[i]))
            /\ \A k \in StatKeys(rows[i]) :
                 \E j \in CellsOf(rows[i], k) :
                    DictGet(row_data[i], k) = Extract(fname, rows[i].cells[j])

(* C9 witness: a call on two rows, one without cells, one with cells of    *)
(* two data-stat names, has returned                                       *)
C9_Witness ==
    /\ Returned("get_pfr_table_data")
    /\ Len(rows) = 2
    /\ rows[1].cells = <<>>
    /\ Cardinality(StatKeys(rows[2])) = 2
    /\ row_data[1] = <<>>
    /\ Len(row_data[2]) = 2

-----------------------------------------------------------------------------
(* C3: in every table get_pfr_combine_stats has extracted, each data row   *)
(* is a row of the frame, and its value in column "college" is the href of *)
(* the cell's link, or missing when the cell has no link (whatever its     *)
(* text) or the row has no college cell; its value in any other column is  *)
(* the cell's stripped text, an empty text being missing.  (A text stands  *)
(* as itself or, in a coerced column, as the number it parses to.)         *)
C3_CollegeValue ==
    Called("get_pfr_combines_stats") =>
        \A i \in DOMAIN data :
            LET rs == CombineRows(soups[i])
                frame == data[i]
            IN /\ NRows(frame) = Len(rs)
               /\ Range(frame.columns) = UNION {StatKeys(rs[r]) : r \in DOMAIN rs}
               /\ \A r \in DOMAIN rs, c \in DOMAIN frame.columns :
                    LET k == frame.columns[c]
                        v == frame.data[r][c]
                    IN IF ~HasCell(rs[r], k) THEN v = NaN
                       ELSE LET entry == LastCell(rs[r], k)
                            IN IF k = "college"
                               THEN IF entry.a THEN Holds(v, entry.href) ELSE v = NaN
                               ELSE Holds(v, strip(entry.text))

(* C3 witness: an extracted table with three data rows whose college cells *)
(* are a link, plain text without a link, and absent; the column holds the *)
(* href and two missing markers                                            *)
C3_Witness ==
    /\ Called("get_pfr_combines_stats")
    /\ \E i \in DOMAIN data :
        LET rs == CombineRows(soups[i])
        IN /\ Len(rs) = 3
           /\ HasCell(rs[1], "college") /\ LastCell(rs[1], "college").a
           /\ HasCell(rs[2], "college") /\ ~LastCell(rs[2], "college").a
           /\ LastCell(rs[2], "college").text # <<>>
           /\ ~HasCell(rs[3], "college")
           /\ HasColumn(data[i], "college")
           /\ Column(data[i], IndexOf(data[i].columns, "college"))
                = <<Str(<<"/", "a">>), NaN, NaN>>

-----------------------------------------------------------------------------
(* The texts a frame's column is made from *)

(* the frame's column c, whose row r is made from text(r) when has(r),     *)
(* is coerced as a whole: missing where there is no text or an empty one,  *)
(* numbers everywhere else when every text parses, the texts themselves    *)
(* when one does not                                                       *)
WholeColumn(frame, c, has(_), text(_)) ==
    LET valued == {r \in DOMAIN frame.data : has(r) /\ text(r) # <<>>}
    IN /\ \A r \in DOMAIN frame.data \ valued : frame.data[r][c] = NaN
       /\ IF \A r \in valued : Parseable(text(r))
          THEN \A r \in valued : frame.data[r][c] = Num(NumVal(text(r)))
          ELSE \A r \in valued : frame.data[r][c] = Str(text(r))

(* C8: in the frames of both extractors, an empty string is the missing    *)
(* marker and does not keep its column from being coerced; a column is     *)
(* numeric in every valued row when all its valued cells parse, and is     *)
(* text in every valued row when one of them does not                      *)
C8_ColumnCoercion ==
    /\ Called("get_pfr_combines_stats") =>
        \A i \in DOMAIN data :
            LET rs == CombineRows(soups[i])
            IN \A c \in DOMAIN data[i].columns :
                LET k == data[i].columns[c]
                IN WholeColumn(data[i], c,
                        LAMBDA r : HasCell(rs[r], k),
                        LAMBDA r : CombineText(LastCell(rs[r], k)))
    /\ Called("get_pfr_players_stats") =>
        \A i \in DOMAIN data :
            \A c \in DOMAIN data[i].columns :
                LET k == data[i].columns[c]
                IN WholeColumn(data[i], c,
                        LAMBDA r : PlayerHas(soups[i], k, r),
                        LAMBDA r : PlayerText(soups[i], k, r))

(* C8 witness: a player frame with a column left as text because one of    *)
(* its cells does not parse although another does, and a column that is    *)
(* numeric although one of its cells is the empty string                   *)
C8_Witness ==
    /\ Called("get_pfr_players_stats")
    /\ \E i \in DOMAIN data :
        /\ NRows(data[i]) = 2
        /\ \E c \in DOMAIN data[i].columns :
            /\ data[i].data[1][c] = Str(<<"7">>)
            /\ data[i].data[2][c] = Str(<<"a">>)
        /\ \E c \in DOMAIN data[i].columns :
            /\ data[i].data[1][c].t = "num"
            /\ data[i].data[2][c] = NaN
            /\ PlayerHas(soups[i], data[i].columns[c], 2)
            /\ PlayerText(soups[i], data[i].columns[c], 2) = <<>>

-----------------------------------------------------------------------------
(* C7: in every frame get_pfr_player_stats has made, each data-stat name   *)
(* of the player's category tables is the label of exactly one column, the *)
(* frame has as many rows as the longest table, and the column's values    *)
(* are those of the first table, in document order, that holds the name:   *)
(* its cell's text in the rows that table has a cell for it, missing in    *)
(* the other rows, whatever the later tables hold there                    *)
C7_FirstTableWins ==
    Called("get_pfr_players_stats") =>
        \A i \in DOMAIN data :
            LET frame == data[i]
                tables == PlayerTables(soups[i])
            IN /\ Range(frame.columns) = PlayerKeys(soups[i])
               /\ Len(frame.columns) = Cardinality(PlayerKeys(soups[i]))
               /\ \A t \in DOMAIN tables : Len(tables[t].rows) <= NRows(frame)
               /\ tables # <<>> => \E t \in DOMAIN tables : Len(tables[t].rows) = NRows(frame)
               /\ \A c \in DOMAIN frame.columns, r \in DOMAIN frame.data :
                    LET k == frame.columns[c]
                    IN IF PlayerHas(soups[i], k, r)
                       THEN Holds(frame.data[r][c], PlayerText(soups[i], k, r))
                       ELSE frame.data[r][c] = NaN

(* C7 witness: two category tables of different row counts share a name    *)
(* with different texts in the first row; the frame has the first table's  *)
(* text there and a missing marker in the row only the second table has    *)
C7_Witness ==
    /\ Called("get_pfr_players_stats")
    /\ \E i \in DOMAIN data :
        LET tables == PlayerTables(soups[i])
        IN /\ Len(tables) = 2
           /\ Len(tables[1].rows) = 1
           /\ Len(tables[2].rows) = 2
           /\ HasCell(tables[1].rows[1], "year_id")
           /\ HasCell(tables[2].rows[1], "year_id")
           /\ HasCell(tables[2].rows[2], "year_id")
           /\ LastCell(tables[1].rows[1], "year_id").text = <<"7">>
           /\ LastCell(tables[2].rows[1], "year_id").text = <<"a">>
           /\ LastCell(tables[2].rows[2], "year_id").text = <<"7", "7">>
           /\ Column(data[i], IndexOf(data[i].columns, "year_id")) = <<Num(7), NaN>>

-----------------------------------------------------------------------------
(* C10, as stated: without an extraction function get_pfr_table_data       *)
(* values each cell by its stripped text, and a player-table cell of       *)
(* blanks only ends as the missing marker                                  *)
C10_Trimmed ==
    /\ Returned("get_pfr_table_data") /\ fname = "text" =>
        \A i \in DOMAIN row_data : \A k \in StatKeys(rows[i]) :
            DictGet(row_data[i], k) = strip(LastCell(rows[i], k).text)
    /\ Called("get_pfr_players_stats") =>
        \A i \in DOMAIN data :
            \A c \in DOMAIN data[i].columns, r \in DOMAIN data[i].data :
                LET k == data[i].columns[c]
                IN PlayerHas(soups[i], k, r) /\ strip(PlayerText(soups[i], k, r)) = <<>>
                    => data[i].data[r][c] = NaN

(* C10, amended: without an extraction function get_pfr_table_data values  *)
(* each cell by its text as it stands, blanks included; in a player frame  *)
(* only a cell whose text is empty is the missing marker, and a cell of    *)
(* blanks only keeps its text                                              *)
C10_Untrimmed ==
    /\ Returned("get_pfr_table_data") /\ fname = "text" =>
        \A i \in DOMAIN row_data : \A k \in StatKeys(rows[i]) :
            DictGet(row_data[i], k) = LastCell(rows[i], k).text
    /\ Called("get_pfr_players_stats") =>
        \A i \in DOMAIN data :
            \A c \in DOMAIN data[i].columns, r \in DOMAIN data[i].data :
                LET k == data[i].columns[c]
                    v == data[i].data[r][c]
                IN PlayerHas(soups[i], k, r) =>
                    LET t == PlayerText(soups[i], k, r)
                    IN /\ t = <<>> => v = NaN
                       /\ t # <<>> => Denotes(v, t)
                       /\ t # <<>> /\ strip(t) = <<>> => v = Str(t)

(* C10 witness: a player frame made from a cell of one blank *)
C10_Witness ==
    /\ Called("get_pfr_players_stats")
    /\ \E i \in DOMAIN data :
        \E c \in DOMAIN data[i].columns, r \in DOMAIN data[i].data :
            /\ PlayerHas(soups[i], data[i].columns[c], r)
            /\ PlayerText(soups[i], data[i].columns[c], r) = <<" ">>
            /\ data[i].data[r][c] = Str(<<" ">>)

-----------------------------------------------------------------------------
(* The result of get_pfr_combines_stats *)

EqualLengths == Len(ids) = Len(soups)

DataRows(i) == Len(CombineRows(soups[i]))

Outer == [j \in DOMAIN df.index |-> df.index[j][1]]

Inner == [j \in DOMAIN df.index |-> df.index[j][2]]

(* C1, as stated: the player_id of each year's rows is 0, 1, ..., n-1,     *)
(* n the number of data rows of that year's table: it restarts at 0 for    *)
(* each year                                                               *)
C1_RestartPerYear ==
    Returned("get_pfr_combines_stats") /\ EqualLengths /\ df.ok =>
        df.index = Flatten([i \in DOMAIN soups |->
                        [r \in 1..DataRows(i) |-> <<Num(ids[i]), Num(r - 1)>>]])

(* C1, amended: a call with as many years as documents, each with a        *)
(* combine table, returns a frame whose rows are the years' data rows in   *)
(* order, each tagged with its year, and whose player_id is 0, 1, ..., N-1 *)
(* over all rows of the result, N the number of data rows of all years: it *)
(* starts at 0 once per call and runs on from one year to the next         *)
C1_SequentialPerCall ==
    Returned("get_pfr_combines_stats") /\ EqualLengths =>
        /\ (soups # <<>> /\ \A i \in DOMAIN soups : HasTable(soups[i], "combine")) => df.ok
        /\ df.ok =>
            /\ Outer = Flatten([i \in DOMAIN soups |->
                            [r \in 1..DataRows(i) |-> Num(ids[i])]])
            /\ Inner = [j \in DOMAIN df.index |-> Num(j - 1)]
            /\ Len(df.data) = Len(df.index)
            /\ ~HasColumn(df, "player_id")

(* C1 witness: a call over two years, both with data rows, has returned;   *)
(* the second year's first row is numbered after the first year's rows     *)
C1_Witness ==
    /\ Returned("get_pfr_combines_stats")
    /\ EqualLengths
    /\ df.ok
    /\ Len(soups) = 2
    /\ DataRows(1) = 2
    /\ DataRows(2) >= 1
    /\ df.index[3] = <<Num(ids[2]), Num(2)>>

(* C2: a call whose years and documents differ in number fails and returns *)
(* no frame                                                                *)
C2_LengthMismatch ==
    Returned("get_pfr_combines_stats") /\ ~EqualLengths => ~df.ok

-----------------------------------------------------------------------------
(* The result of get_pfr_players_stats *)

YearIdOf(frame, r) == frame.data[r][IndexOf(frame.columns, "year_id")]

EveryTableHasYear ==
    \A i \in DOMAIN data : NRows(data[i]) > 0 => HasColumn(data[i], "year_id")

(* C4: when every player frame with rows has the year_id column, the       *)
(* result's rows are the players' rows in the order of the documents and,  *)
(* within a document, of its rows; each row's outer index is the player_id *)
(* at the document's position and its inner index is the row's own year_id *)
(* value, taken from the year_id cell of that row                          *)
C4_PlayerYearIndex ==
    Returned("get_pfr_players_stats") /\ EqualLengths /\ EveryTableHasYear =>
        /\ (\E i \in DOMAIN data : NRows(data[i]) > 0) => df.ok
        /\ df.ok =>
            /\ df.index = Flatten([i \in DOMAIN data |->
                            [r \in 1..NRows(data[i]) |->
                                <<Num(ids[i]), YearIdOf(data[i], r)>>]])
            /\ Len(df.data) = Len(df.index)
            /\ \A i \in DOMAIN data : \A r \in 1..NRows(data[i]) :
                 IF PlayerHas(soups[i], "year_id", r)
                 THEN Holds(YearIdOf(data[i], r), PlayerText(soups[i], "year_id", r))
                 ELSE YearIdOf(data[i], r) = NaN

(* C4 witness: a call over two players has returned; the first document    *)
(* has one table with year_id cells 77 and 7, the second has rows too; the *)
(* result starts (player 1, 77), (player 1, 7), (player 2, ...)            *)
C4_Witness ==
    /\ Returned("get_pfr_players_stats")
    /\ df.ok
    /\ Len(soups) = 2 /\ Len(ids) = 2
    /\ NRows(data[1]) = 2 /\ NRows(data[2]) >= 1
    /\ EveryTableHasYear
    /\ PlayerHas(soups[1], "year_id", 1) /\ PlayerHas(soups[1], "year_id", 2)
    /\ PlayerText(soups[1], "year_id", 1) = <<"7", "7">>
    /\ PlayerText(soups[1], "year_id", 2) = <<"7">>
    /\ SubSeq(df.index, 1, 3)
         = << <<Num(ids[1]), Num(77)>>, <<Num(ids[1]), Num(7)>>,
              <<Num(ids[2]), YearIdOf(data[2], 1)>> >>

(* C5: a call in which a player frame with rows lacks the year_id column   *)
(* fails, also when other players' frames have the column; it returns no   *)
(* frame whose index holds a missing year                                  *)
C5_MissingIndexField ==
    Returned("get_pfr_players_stats") /\ EqualLengths /\ ~EveryTableHasYear => ~df.ok

(* C6: a document without any category table gives an empty frame, and     *)
(* such a document does not make the call fail: a call with as many ids as *)
(* documents, in which every document that has category tables gives a     *)
(* frame with the year_id column, returns a frame                          *)
C6_ZeroTablesNoError ==
    Called("get_pfr_players_stats") =>
        /\ \A i \in DOMAIN data : PlayerTables(soups[i]) = <<>> => data[i] = EmptyFrame
        /\ ( /\ pc = "done"
             /\ EqualLengths
             /\ \E i \in DOMAIN soups : PlayerTables(soups[i]) = <<>>
             /\ \A i \in DOMAIN soups :
                    PlayerTables(soups[i]) # <<>> => HasColumn(data[i], "year_id") )
            => df.ok

=============================================================================
